---- MODULE Spec2Model ----
(***************************************************************************)
(* A model of the whisper file of graphite-rust: the fixed-size round-     *)
(* robin file (src/whisper/file/file.rs), its 12-byte point codec          *)
(* (src/whisper/point.rs) and the cascading write path                     *)
(* WhisperFile::write -> split -> write_archives -> downsample_new.        *)
(*                                                                         *)
(* The file is modelled slot by slot: the data region is the sequence of   *)
(* the 12-byte records of all archives in index order, the header is the   *)
(* in-memory Header.  Byte offsets are kept as in the code (an archive's   *)
(* offset is 16 + 12*archive_count + 12*slots before it).  Values are      *)
(* exact rationals <<numerator, denominator>>; <<0, 0>> is the f64 NaN     *)
(* that 0.0 / 0 produces.                                                  *)
(***************************************************************************)
EXTENDS Integers, Sequences, FiniteSets, TLC

VARIABLES header, file, call, sent

vars == <<header, file, call, sent>>

(***************************************************************************)
(* Bounds of the model.                                                    *)
(***************************************************************************)
\* point.timestamp is drawn from 0..MaxTime
MaxTime == 9
\* current_time is drawn from the last ClockSpan + 1 values of 0..MaxTime
ClockSpan == 1
\* number of write calls with fresh arguments in one behaviour
MaxCalls == 3

(***************************************************************************)
(* Program constants.                                                      *)
(***************************************************************************)
POINT_SIZE == 12
\* size of the Metadata record that precedes the archive index
METADATA_SIZE == 16
\* the archive size at which downsample_new aborts
PANIC_POINTS == 60

\* the handles (one WhisperFile each) that may be open on the file
Handles == {1, 2}

(***************************************************************************)
(* Rust integer arithmetic: / and % truncate toward zero.                  *)
(***************************************************************************)
TruncDiv(a, b) == IF a >= 0 THEN a \div b ELSE -((-a) \div b)

TruncRem(a, b) == a - b * TruncDiv(a, b)

(***************************************************************************)
(* f64 values as exact rationals.                                          *)
(***************************************************************************)
RECURSIVE Gcd(_, _)
Gcd(a, b) == IF b = 0 THEN a ELSE Gcd(b, a % b)

NaN == <<0, 0>>

Zero == <<0, 1>>

Reduce(n, d, g) == <<n \div g, d \div g>>

Norm(n, d) ==
    IF d = 0 THEN NaN
    ELSE Reduce(n, d, Gcd(IF n < 0 THEN -n ELSE n, d))

RatAdd(a, b) ==
    IF a[2] = 0 \/ b[2] = 0 THEN NaN
    ELSE Norm(a[1] * b[2] + b[1] * a[2], a[2] * b[2])

\* sum as f64 / (len as f64); 0.0 / 0 is NaN
RatDivInt(a, k) ==
    IF a[2] = 0 \/ k = 0 THEN NaN ELSE Norm(a[1], a[2] * k)

RECURSIVE SumValues(_)
SumValues(points) ==
    IF points = <<>> THEN Zero
    ELSE RatAdd(SumValues(SubSeq(points, 1, Len(points) - 1)),
                points[Len(points)].value)

\* ratio < x_files_factor, both exact (kept / possible against num / den)
RatioBelow(kept, possible, xff) == kept * xff[2] < xff[1] * possible

(***************************************************************************)
(* Point codec (src/whisper/point.rs).  The timestamp is written as a      *)
(* 4-byte big-endian u32 (interval_ceiling as u32), the value as 8 bytes   *)
(* that are kept abstract.                                                 *)
(***************************************************************************)
Byte(n, k) == (n \div (256 ^ k)) % 256

fill_buf(interval_ceiling, point_value) ==
    [ts    |-> <<Byte(interval_ceiling, 3), Byte(interval_ceiling, 2),
                 Byte(interval_ceiling, 1), Byte(interval_ceiling, 0)>>,
     value |-> point_value]

\* buf_to_point that reads the timestamp least significant byte first
buf_to_point_little_endian(buf) ==
    [timestamp |-> ((buf.ts[4] * 256 + buf.ts[3]) * 256 + buf.ts[2]) * 256
                   + buf.ts[1],
     value     |-> buf.value]

buf_to_point(buf) ==
    [timestamp |-> ((buf.ts[1] * 256 + buf.ts[2]) * 256 + buf.ts[3]) * 256
                   + buf.ts[4],
     value     |-> buf.value]

\* a slot of the zero-filled file
ZeroSlot == [ts |-> <<0, 0, 0, 0>>, value |-> Zero]

Point(t, v) == [timestamp |-> t, value |-> v]

(***************************************************************************)
(* Schema and ArchiveInfo (schema.rs and archive_info.rs of the            *)
(* repository, described in sections 4.2 and 4.4 of the specification).    *)
(***************************************************************************)
RetentionPolicy(precision, retention) ==
    [precision |-> precision, retention |-> retention]

rp_points(rp) == rp.retention \div rp.precision

rp_size_on_disk(rp) == POINT_SIZE * rp_points(rp)

header_size_on_disk(schema) == METADATA_SIZE + POINT_SIZE * Len(schema)

RECURSIVE data_points(_)
data_points(schema) ==
    IF schema = <<>> THEN 0
    ELSE rp_points(schema[Len(schema)])
         + data_points(SubSeq(schema, 1, Len(schema) - 1))

size_on_disk(schema) ==
    header_size_on_disk(schema) + POINT_SIZE * data_points(schema)

max_retention(schema) == schema[Len(schema)].retention

interval_ceiling(ai, timestamp) ==
    timestamp - (timestamp % ai.seconds_per_point)

size_in_bytes(ai) == ai.points * POINT_SIZE

\* calculate_seek with the remainder truncated toward zero
calculate_seek_truncating(ai, point, base_timestamp) ==
    IF base_timestamp = 0 THEN ai.offset
    ELSE ai.offset
         + TruncRem(TruncDiv(interval_ceiling(ai, point.timestamp)
                                 - base_timestamp,
                             ai.seconds_per_point) * POINT_SIZE,
                    size_in_bytes(ai))

\* offset + Euclidean remainder of the byte distance from the base slot
calculate_seek(ai, point, base_timestamp) ==
    IF base_timestamp = 0 THEN ai.offset
    ELSE ai.offset
         + ((TruncDiv(interval_ceiling(ai, point.timestamp) - base_timestamp,
                      ai.seconds_per_point) * POINT_SIZE)
            % size_in_bytes(ai))

(***************************************************************************)
(* Creation and opening (WhisperFile::new_from_file, open).                *)
(***************************************************************************)
\* archive_offset that starts right after the metadata, the index left out
RECURSIVE archive_offset_after_metadata(_, _)
archive_offset_after_metadata(schema, i) ==
    IF i = 1 THEN METADATA_SIZE
    ELSE archive_offset_after_metadata(schema, i - 1)
         + rp_size_on_disk(schema[i - 1])

RECURSIVE archive_offset(_, _)
archive_offset(schema, i) ==
    IF i = 1 THEN header_size_on_disk(schema)
    ELSE archive_offset(schema, i - 1) + rp_size_on_disk(schema[i - 1])

\* the in-memory header new_from_file returns, which it also wrote to disk
new_from_file(schema) ==
    [metadata |->
        [aggregation_type |-> "Average",
         max_retention    |-> max_retention(schema),
         x_files_factor   |-> <<1, 2>>,
         archive_count    |-> Len(schema)],
     archive_infos |->
        [i \in 1..Len(schema) |->
            [offset            |-> archive_offset(schema, i),
             seconds_per_point |-> schema[i].precision,
             retention         |-> schema[i].retention,
             points            |-> rp_points(schema[i])]]]

\* ftruncate to size_on_disk: every slot of the data region reads as zero
zero_filled(schema) == [i \in 1..data_points(schema) |-> ZeroSlot]

\* WhisperFile::new on a path that holds `old`: the file is opened with
\* create but without truncate, then ftruncate sets its length to
\* size_on_disk; the header is written over its first bytes.  `old` lists
\* the 12-byte records of the old file that follow its first 16 bytes, so
\* the data region starts at record Len(schema) + 1; bytes past the old
\* end read as zero.
ftruncate(old, schema) ==
    [i \in 1..data_points(schema) |->
        IF Len(schema) + i <= Len(old) THEN old[Len(schema) + i]
        ELSE ZeroSlot]

\* what new_from_file puts on disk: the metadata record (metadata.write)
\* and one index entry per retention policy (rp.write)
header_on_disk(hdr) ==
    [metadata |-> hdr.metadata,
     index    |-> [i \in 1..Len(hdr.archive_infos) |->
                     [offset            |-> hdr.archive_infos[i].offset,
                      seconds_per_point |->
                          hdr.archive_infos[i].seconds_per_point,
                      points            |-> hdr.archive_infos[i].points]]]

\* the header of a file of this layout whose metadata carries another
\* x_files_factor, as read_header hands it to open
open(schema, xff) ==
    [new_from_file(schema) EXCEPT !.metadata.x_files_factor = xff]

(***************************************************************************)
(* File access through the handle.                                         *)
(***************************************************************************)
\* the slot (1-based index into the data region) that starts at byte offset
slot_at(hdr, offset) ==
    (offset - (METADATA_SIZE + POINT_SIZE * hdr.metadata.archive_count))
        \div POINT_SIZE + 1

read_point(hdr, f, offset) == buf_to_point(f[slot_at(hdr, offset)])

\* write_all that writes the record twice, over the slot and the next one
write_all_two_records(f, slot, bytes) ==
    [i \in 1..(IF slot + 1 > Len(f) THEN slot + 1 ELSE Len(f)) |->
        IF i \in {slot, slot + 1} THEN bytes
        ELSE IF i <= Len(f) THEN f[i] ELSE ZeroSlot]

\* write_all of the 12 bytes at slot `slot` of the data region: a write
\* past the end of the file extends it, the gap reading as zero
write_all(f, slot, bytes) ==
    IF slot > Len(f)
    THEN [i \in 1..slot |->
             IF i <= Len(f) THEN f[i]
             ELSE IF i = slot THEN bytes ELSE ZeroSlot]
    ELSE [f EXCEPT ![slot] = bytes]

perform_write_op(hdr, f, write_op) ==
    write_all(f, slot_at(hdr, write_op.seek), write_op.bytes)

\* Reads count points from slot archive_index of the archive on.  The read
\* is one seek and one read of count * 12 bytes: it runs on into whatever
\* follows the archive, and a read cut short by the end of the file fails
\* the assertion on the number of bytes read.
points_from(f, first, count) ==
    IF count > 0 /\ first + count - 1 > Len(f)
    THEN [ok |-> FALSE, points |-> <<>>]
    ELSE [ok |-> TRUE,
          points |-> [i \in 1..count |-> buf_to_point(f[first + i - 1])]]

read_points(hdr, f, ai, archive_index, count) ==
    points_from(f, slot_at(hdr, ai.offset + archive_index * POINT_SIZE),
                count)

(***************************************************************************)
(* Archive selection (WhisperFile::split).                                 *)
(***************************************************************************)
\* age_covered with >= for >
age_covered_or_equal(ai, age) ==
    IF age < 0 THEN FALSE ELSE ai.retention >= age

\* current_time - point_timestamp on u64.  A difference below zero stands
\* for the wrapped value 2^64 + difference of a build without overflow
\* checks; a build with them aborts instead.
age_covered(ai, age) ==
    \* every wrapped value of the model exceeds every retention
    IF age < 0 THEN FALSE ELSE ai.retention > age

\* the index of the first archive that covers the age, 0 when none does
RECURSIVE find_archive(_, _, _)
find_archive(archive_infos, age, i) ==
    IF i > Len(archive_infos) THEN 0
    ELSE IF age_covered(archive_infos[i], age) THEN i
    ELSE find_archive(archive_infos, age, i + 1)

rest_of_archives(hdr, high) ==
    IF high = 0
    THEN [some |-> FALSE, high |-> 0, rest |-> <<>>]
    ELSE [some |-> TRUE, high |-> high,
          rest |-> [j \in 1..(Len(hdr.archive_infos) - high) |-> high + j]]

split(hdr, current_time, point_timestamp) ==
    rest_of_archives(hdr,
        find_archive(hdr.archive_infos, current_time - point_timestamp, 1))

(***************************************************************************)
(* build_write_op: the 12 bytes and the place they go.                     *)
(***************************************************************************)
\* build_write_op that encodes the timestamp as given, not its interval
build_write_op_unaligned(archive_info, point, base_timestamp) ==
    [seek  |-> calculate_seek(archive_info, point, base_timestamp),
     bytes |-> fill_buf(point.timestamp, point.value)]

\* build_write_op that seeks as if the archive were empty
build_write_op_base_slot(archive_info, point, base_timestamp) ==
    [seek  |-> calculate_seek(archive_info, point, 0),
     bytes |-> fill_buf(interval_ceiling(archive_info, point.timestamp),
                        point.value)]

build_write_op(archive_info, point, base_timestamp) ==
    [seek  |-> calculate_seek(archive_info, point, base_timestamp),
     bytes |-> fill_buf(interval_ceiling(archive_info, point.timestamp),
                        point.value)]

(***************************************************************************)
(* Downsampling (WhisperFile::downsample_new and its helpers).             *)
(***************************************************************************)
h_res_points_needed(h_res_archive, l_res_archive) ==
    l_res_archive.seconds_per_point \div h_res_archive.seconds_per_point

\* wrapped_index without the correction of a negative remainder
wrapped_index_truncating(points, ring) == TruncRem(points, ring)

\* the Euclidean remainder the code builds from the truncating %
wrapped_index(points, ring) ==
    IF TruncRem(points, ring) < 0 THEN ring + TruncRem(points, ring)
    ELSE TruncRem(points, ring)

\* the slot of the fine archive the window starts at
h_res_start_index(h_base_timestamp, h_res_archive, l_res_archive, base_timestamp) ==
    IF h_base_timestamp = 0 THEN 0
    ELSE wrapped_index(
             TruncDiv(interval_ceiling(l_res_archive, base_timestamp)
                          - h_base_timestamp,
                      h_res_archive.seconds_per_point),
             h_res_archive.points)

NoRead == [count |-> 0, index |-> 0, some |-> FALSE]

\* The reads planned for a window of `needed` points that starts at slot
\* `start`: one read of the whole buffer, or the buffer split at
\* points - start with the second part read from h_res_end_index.
\* split_at_mut aborts when asked to split past the end of the buffer.
plan_reads(h_res_archive, needed, start, h_res_end_index) ==
    IF start < h_res_end_index
    THEN [ok |-> TRUE,
          first  |-> [index |-> start, count |-> needed],
          second |-> NoRead]
    ELSE IF h_res_archive.points - start > needed
    THEN [ok |-> FALSE,
          first  |-> [index |-> start, count |-> 0],
          second |-> NoRead]
    ELSE [ok |-> TRUE,
          first  |-> [index |-> start,
                      count |-> h_res_archive.points - start],
          second |-> [some |-> TRUE, index |-> h_res_end_index,
                      count |-> needed - (h_res_archive.points - start)]]

h_res_end_index(h_res_archive, needed, start) ==
    (start + needed) % h_res_archive.points

read_ops_from(h_res_archive, needed, start) ==
    plan_reads(h_res_archive, needed, start,
               h_res_end_index(h_res_archive, needed, start))

downsample_new_read_ops(hdr, f, h_res_archive, l_res_archive, needed, base_timestamp) ==
    read_ops_from(h_res_archive, needed,
        h_res_start_index(read_point(hdr, f, h_res_archive.offset).timestamp,
                          h_res_archive, l_res_archive, base_timestamp))

\* zip of the points with range_step_inclusive(start, stop, step): the i-th
\* point is kept when its timestamp is start + (i - 1) * step
keep_expected(kept, point, expected_timestamp) ==
    IF point.timestamp = expected_timestamp THEN Append(kept, point)
    ELSE kept

RECURSIVE filter_values(_, _, _)
filter_values(points, timestamp_start, step) ==
    IF points = <<>> THEN <<>>
    ELSE keep_expected(
             filter_values(SubSeq(points, 1, Len(points) - 1),
                           timestamp_start, step),
             points[Len(points)],
             timestamp_start + (Len(points) - 1) * step)

aggregate_samples_consume(hdr, valid_points, points_possible) ==
    IF RatioBelow(Len(valid_points), points_possible,
                  hdr.metadata.x_files_factor)
    THEN [some |-> FALSE, value |-> Zero]
    ELSE IF hdr.metadata.aggregation_type = "Average"
    THEN [some |-> TRUE,
          value |-> RatDivInt(SumValues(valid_points), Len(valid_points))]
    ELSE [some |-> TRUE, value |-> Zero]

NoWriteOp == [bytes |-> ZeroSlot, seek |-> 0]

\* The outcome of one downsample: "panic", "None" (skipped) or "Some" with
\* the write into the coarse archive.  kept and needed are the sizes
\* aggregate_samples_consume saw.
Abort(why, needed) ==
    [status |-> "panic", why |-> why, kept |-> 0, needed |-> needed,
     write_op |-> NoWriteOp]

\* downsample_new from "perform aggregation" on
aggregate_window(hdr, f, l_res_archive, filtered_values, needed, l_interval_start, aggregated_value) ==
    IF aggregated_value.some
    THEN [status |-> "Some", why |-> "", kept |-> Len(filtered_values),
          needed |-> needed,
          write_op |->
              build_write_op(l_res_archive,
                  Point(l_interval_start, aggregated_value.value),
                  read_point(hdr, f, l_res_archive.offset).timestamp)]
    ELSE [status |-> "None", why |-> "", kept |-> Len(filtered_values),
          needed |-> needed, write_op |-> NoWriteOp]

\* downsample_new from "filter out of date samples" on
filter_window(hdr, f, h_res_archive, l_res_archive, h_res_points, filtered_values, base_timestamp) ==
    aggregate_window(hdr, f, l_res_archive, filtered_values,
        Len(h_res_points),
        interval_ceiling(l_res_archive, base_timestamp),
        aggregate_samples_consume(hdr, filtered_values, Len(h_res_points)))

\* downsample_new once the reads have been performed
after_reads(hdr, f, h_res_archive, l_res_archive, needed, first, second, base_timestamp) ==
    IF ~first.ok \/ ~second.ok
    THEN Abort("assertion failed: bytes_read == points_buf.len()", needed)
    ELSE filter_window(hdr, f, h_res_archive, l_res_archive,
             first.points \o second.points,
             filter_values(first.points \o second.points,
                           interval_ceiling(l_res_archive, base_timestamp),
                           h_res_archive.seconds_per_point),
             base_timestamp)

\* downsample_new from "perform reads" on
perform_reads(hdr, f, h_res_archive, l_res_archive, needed, reads, base_timestamp) ==
    IF ~reads.ok THEN Abort("split_at_mut: mid > len", needed)
    ELSE IF h_res_archive.points = PANIC_POINTS THEN Abort("sup", needed)
    ELSE after_reads(hdr, f, h_res_archive, l_res_archive, needed,
             read_points(hdr, f, h_res_archive, reads.first.index,
                         reads.first.count),
             IF reads.second.some
             THEN read_points(hdr, f, h_res_archive, reads.second.index,
                              reads.second.count)
             ELSE [ok |-> TRUE, points |-> <<>>],
             base_timestamp)

downsample_new(hdr, f, h_res_archive, l_res_archive, base_timestamp) ==
    perform_reads(hdr, f, h_res_archive, l_res_archive,
        h_res_points_needed(h_res_archive, l_res_archive),
        downsample_new_read_ops(hdr, f, h_res_archive, l_res_archive,
            h_res_points_needed(h_res_archive, l_res_archive),
            base_timestamp),
        base_timestamp)

(***************************************************************************)
(* The files and inputs of the model.                                      *)
(***************************************************************************)
\* 1s:2s,2s:4s,4s:8s - three archives, every window is the whole finer ring
Schema3 == <<RetentionPolicy(1, 2), RetentionPolicy(2, 4),
             RetentionPolicy(4, 8)>>

\* 1s:4s,2s:8s - a window is half of the finer ring
Schema2 == <<RetentionPolicy(1, 4), RetentionPolicy(2, 8)>>

\* 2s:6s - one archive
Schema1 == <<RetentionPolicy(2, 6)>>

\* 1s:2s,4s:8s - a window is twice the finer ring
Schema4 == <<RetentionPolicy(1, 2), RetentionPolicy(4, 8)>>

Schemas == {Schema1, Schema2, Schema3, Schema4}

\* x_files_factor as num / den
XFilesFactors == {<<0, 1>>, <<1, 2>>, <<1, 1>>}

Times == 0..MaxTime

CurrentTimes == (MaxTime - ClockSpan)..MaxTime

Values == {<<1, 1>>, <<2, 1>>}

\* the handles that write in Spec
Writers == {1}

(***************************************************************************)
(* One write call, step by step.  call[h] is the frame of the call handle  *)
(* h is in: pc is the step it is at, log the downsamples computed and the  *)
(* writes issued so far, pre the file as it was when the call began, and,  *)
(* in a call that repeats the one before it, before the file as it was     *)
(* when that one began; overlaps tells that the call began while a call    *)
(* on another handle was in progress.                                      *)
(***************************************************************************)
IdleCall ==
    [again |-> FALSE, base_timestamp |-> 0, before |-> <<>>,
     current_time |-> 0, high |-> 0, log |-> <<>>, overlaps |-> FALSE,
     panic |-> "", pc |-> "idle", point |-> Point(0, Zero), pre |-> <<>>,
     rest |-> <<>>, step |-> 0, write_op |-> NoWriteOp]

WriteEvent(archive, write_op) ==
    [op |-> "write", archive |-> archive, seek |-> write_op.seek,
     kept |-> 0, needed |-> 0, status |-> ""]

DownsampleEvent(archive, outcome) ==
    [op |-> "downsample", archive |-> archive, seek |-> 0,
     kept |-> outcome.kept, needed |-> outcome.needed,
     status |-> outcome.status]

\* the archives of the call in cascade order: the selected one, then rest
Chain(c) == <<c.high>> \o c.rest

TypeOK ==
    /\ sent \in Nat
    /\ \A h \in Handles :
          call[h].pc \in {"idle", "write_archives", "downsample",
                          "perform_write_op", "done", "panic"}

Init ==
    /\ \E schema \in Schemas, xff \in XFilesFactors :
          /\ header = open(schema, xff)
          /\ file = zero_filled(schema)
    /\ call = [h \in Handles |-> IdleCall]
    /\ sent = 0

NewFrame(f, current_time, point, again, before) ==
    [IdleCall EXCEPT !.current_time = current_time, !.point = point,
                     !.pre = f, !.again = again, !.before = before]

Selected(hdr, f, frame, found) ==
    [frame EXCEPT !.pc = "write_archives",
                  !.high = found.high, !.rest = found.rest,
                  !.base_timestamp =
                      read_point(hdr, f,
                          hdr.archive_infos[found.high].offset).timestamp]

Panicked(frame, why) == [frame EXCEPT !.pc = "panic", !.panic = why]

write_from(h, frame, found) ==
    \/ \* overflow checks on: the subtraction in split aborts
       /\ frame.point.timestamp > frame.current_time
       /\ call' = [call EXCEPT ![h] =
             Panicked(frame, "attempt to subtract with overflow")]
    \/ /\ ~found.some
       /\ call' = [call EXCEPT ![h] =
             Panicked(frame, "no archives satisfy current time")]
    \/ /\ found.some
       /\ call' = [call EXCEPT ![h] = Selected(header, file, frame, found)]

\* WhisperFile::write up to the call of write_archives; again tells that
\* the call before it on this handle had the same arguments
write(h, current_time, point, again, before) ==
    /\ UNCHANGED <<header, file>>
    /\ write_from(h, NewFrame(file, current_time, point, again, before),
                  split(header, current_time, point.timestamp))

primary_write(h, c, write_op) ==
    /\ file' = perform_write_op(header, file, write_op)
    /\ call' = [call EXCEPT ![h] =
          [c EXCEPT !.log = Append(@, WriteEvent(c.high, write_op)),
                    !.pc = IF c.rest = <<>> THEN "done" ELSE "downsample",
                    !.step = IF c.rest = <<>> THEN 0 ELSE 1]]

\* write_archives: the write into the selected archive
PrimaryWrite(h) ==
    /\ call[h].pc = "write_archives"
    /\ primary_write(h, call[h],
           build_write_op(header.archive_infos[call[h].high], call[h].point,
                          call[h].base_timestamp))
    /\ UNCHANGED <<header, sent>>

\* The frame after a downsample_new.  The outcome of the first one is
\* mapped over and dropped; the later ones sit in a take_while that ends at
\* the first None.
after_downsample(c, logged, outcome) ==
    IF outcome.status = "panic"
    THEN [logged EXCEPT !.pc = "panic", !.panic = outcome.why]
    ELSE IF outcome.status = "Some"
    THEN [logged EXCEPT !.pc = "perform_write_op",
                        !.write_op = outcome.write_op]
    ELSE IF c.step = 1 /\ Len(c.rest) > 1
    THEN [logged EXCEPT !.step = 2]
    ELSE [logged EXCEPT !.pc = "done"]

downsample_step(c, fine, outcome) ==
    after_downsample(c,
        [c EXCEPT !.log = Append(@, DownsampleEvent(fine, outcome))],
        outcome)

\* file_read_by when the reads are taken before the call's writes
file_read_by_stale(c, f) == c.pre

\* the file a downsample_new of the call reads: the file as it is when the
\* downsample runs, the writes the call has issued so far included
file_read_by(c, f) == f

\* write_archives: one downsample_new of the cascade
Downsample(h) ==
    /\ call[h].pc = "downsample"
    /\ call' = [call EXCEPT ![h] =
          downsample_step(call[h], Chain(call[h])[call[h].step],
              downsample_new(header, file_read_by(call[h], file),
                  header.archive_infos[Chain(call[h])[call[h].step]],
                  header.archive_infos[Chain(call[h])[call[h].step + 1]],
                  call[h].point.timestamp))]
    /\ UNCHANGED <<header, file, sent>>

cascade_write(h, c, coarse) ==
    /\ file' = perform_write_op(header, file, c.write_op)
    /\ call' = [call EXCEPT ![h] =
          [c EXCEPT !.log = Append(@, WriteEvent(coarse, c.write_op)),
                    !.write_op = NoWriteOp,
                    !.pc = IF c.step < Len(c.rest) THEN "downsample"
                           ELSE "done",
                    !.step = IF c.step < Len(c.rest) THEN c.step + 1
                             ELSE c.step]]

\* write_archives: perform_write_op of a downsample's write
CascadeWrite(h) ==
    /\ call[h].pc = "perform_write_op"
    /\ cascade_write(h, call[h], Chain(call[h])[call[h].step + 1])
    /\ UNCHANGED <<header, sent>>

\* the caller calls write with fresh arguments
Write(h, current_time, point) ==
    /\ call[h].pc = "idle"
    /\ sent < MaxCalls
    /\ sent' = sent + 1
    /\ write(h, current_time, point, FALSE, <<>>)

\* the caller repeats the call it has just made (after a panic: the next
\* process does)
WriteAgain(h) ==
    /\ call[h].pc \in {"done", "panic"}
    /\ ~call[h].again
    /\ sent' = sent
    /\ write(h, call[h].current_time, call[h].point, TRUE, call[h].pre)

\* the caller is through with the call
Return(h) ==
    /\ call[h].pc \in {"done", "panic"}
    /\ call' = [call EXCEPT ![h] = IdleCall]
    /\ UNCHANGED <<header, file, sent>>

Next ==
    \E h \in Writers :
        \/ \E current_time \in CurrentTimes, timestamp \in Times,
              value \in Values :
              Write(h, current_time, Point(timestamp, value))
        \/ WriteAgain(h)
        \/ PrimaryWrite(h)
        \/ Downsample(h)
        \/ CascadeWrite(h)
        \/ Return(h)

Spec == Init /\ [][Next]_vars

(***************************************************************************)
(* One sample per slot of the finest archive across one hour: sample i has *)
(* value i and is written at its own time.  The file is created by         *)
(* new_from_file, with schema 1m:1h,1h:1d or 2m:1h,1h:1d.                  *)
(***************************************************************************)
Hour == 60 * 60

Schema1m == <<RetentionPolicy(60, 3600), RetentionPolicy(3600, 86400)>>

Schema2m == <<RetentionPolicy(120, 3600), RetentionPolicy(3600, 86400)>>

HourSchemas == {Schema1m, Schema2m}

\* the hour the samples are written across starts at HourStart
HourStart == Hour

\* the samples of the hour: as many as the finest archive has points
SamplesPerHour == header.archive_infos[1].points

SampleTime(i) == HourStart + i * header.archive_infos[1].seconds_per_point

InitHour ==
    /\ \E schema \in HourSchemas :
          /\ header = new_from_file(schema)
          /\ file = zero_filled(schema)
    /\ call = [h \in Handles |-> IdleCall]
    /\ sent = 0

\* the caller writes the next sample of the hour
WriteSample(h) ==
    /\ call[h].pc = "idle"
    /\ sent < SamplesPerHour
    /\ sent' = sent + 1
    /\ write(h, SampleTime(sent), Point(SampleTime(sent), <<sent, 1>>),
             FALSE, <<>>)

NextHour ==
    \E h \in Writers :
        \/ WriteSample(h)
        \/ PrimaryWrite(h)
        \/ Downsample(h)
        \/ CascadeWrite(h)
        \/ Return(h)

SpecHour == InitHour /\ [][NextHour]_vars

(***************************************************************************)
(* Creation: WhisperFile::new on a path that may hold a file already,      *)
(* followed by one write call.  Before the creation `file` lists the       *)
(* 12-byte records of the old file after its first 16 bytes and the header *)
(* is NoHeader.                                                            *)
(***************************************************************************)
\* the longest old file, in 12-byte records after its first 16 bytes
MaxOld == 4

\* a record of an old file that is not zero
OldSlot == fill_buf(5, <<2, 1>>)

OldFiles == UNION {[1..n -> {ZeroSlot, OldSlot}] : n \in 0..MaxOld}

\* 1s:3s,2s:7s - the retention of the second archive is no multiple of
\* its precision
Schema5 == <<RetentionPolicy(1, 3), RetentionPolicy(2, 7)>>

CreateSchemas == {Schema1, Schema2, Schema3, Schema5}

NoHeader ==
    [archive_infos |-> <<>>,
     metadata |-> [aggregation_type |-> "", archive_count |-> 0,
                   max_retention |-> 0, x_files_factor |-> Zero]]

InitCreate ==
    /\ header = NoHeader
    /\ file \in OldFiles
    /\ call = [h \in Handles |-> IdleCall]
    /\ sent = 0

\* WhisperFile::new(path, schema)
New(schema) ==
    /\ header = NoHeader
    /\ header' = new_from_file(schema)
    /\ file' = ftruncate(file, schema)
    /\ UNCHANGED <<call, sent>>

\* the one write call made on the new file
WriteNew(h, current_time, point) ==
    /\ header # NoHeader
    /\ sent = 0
    /\ Write(h, current_time, point)

NextCreate ==
    \/ \E schema \in CreateSchemas : New(schema)
    \/ \E h \in Writers :
          \/ \E current_time \in CurrentTimes, timestamp \in Times,
                value \in Values :
                WriteNew(h, current_time, Point(timestamp, value))
          \/ PrimaryWrite(h)
          \/ Downsample(h)
          \/ CascadeWrite(h)
          \/ Return(h)

SpecCreate == InitCreate /\ [][NextCreate]_vars

(***************************************************************************)
(* The point codec on its own: a point is encoded with fill_buf into the   *)
(* frame's buffer (write_op.bytes), and the buffer is decoded with         *)
(* buf_to_point; the decoded point is kept in the frame's log.             *)
(***************************************************************************)
\* timestamps around the byte boundaries of a u32, up to the largest
\* integer the model checker represents
CodecTimes ==
    Times \cup {255, 256, 257, 65535, 65536, 65537, 16777215, 16777216,
                16777217, 2147483646, 2147483647}

CodecValues == Values \cup {Zero, NaN, <<-1, 2>>}

InitCodec ==
    /\ header = NoHeader
    /\ file = <<>>
    /\ call = [h \in Handles |-> IdleCall]
    /\ sent = 0

\* fill_buf(buf, t, v)
Encode(h, t, v) ==
    /\ call[h].pc = "idle"
    /\ call' = [call EXCEPT ![h] =
          [IdleCall EXCEPT !.pc = "fill_buf", !.point = Point(t, v),
                           !.write_op = [seek |-> 0,
                                         bytes |-> fill_buf(t, v)]]]
    /\ UNCHANGED <<header, file, sent>>

\* buf_to_point(buf)
Decode(h) ==
    /\ call[h].pc = "fill_buf"
    /\ call' = [call EXCEPT ![h] =
          [@ EXCEPT !.pc = "buf_to_point",
                    !.log = <<buf_to_point(call[h].write_op.bytes)>>]]
    /\ UNCHANGED <<header, file, sent>>

NextCodec ==
    \E h \in Writers :
        \/ \E t \in CodecTimes, v \in CodecValues : Encode(h, t, v)
        \/ Decode(h)

SpecCodec == InitCodec /\ [][NextCodec]_vars

(***************************************************************************)
(* Writes in the first seconds after the epoch: current_time and the       *)
(* timestamps are drawn from 0..EarlyTime, so that anchors below the       *)
(* coarse seconds_per_point occur.                                         *)
(***************************************************************************)
EarlyTime == 3

\* number of write calls in one behaviour of SpecEarly
EarlyCalls == 2

EarlyTimes == 0..EarlyTime

WriteEarly(h, current_time, point) ==
    /\ sent < EarlyCalls
    /\ Write(h, current_time, point)

NextEarly ==
    \E h \in Writers :
        \/ \E current_time \in EarlyTimes, timestamp \in EarlyTimes,
              value \in Values :
              WriteEarly(h, current_time, Point(timestamp, value))
        \/ PrimaryWrite(h)
        \/ Downsample(h)
        \/ CascadeWrite(h)
        \/ Return(h)

SpecEarly == Init /\ [][NextEarly]_vars

(***************************************************************************)
(* A call runs on one thread from its first statement to its return or     *)
(* abort: write and write_archives contain no suspension point, so a call  *)
(* that has a step to take takes it.  Downsample(h) is enabled exactly     *)
(* when the call is at "downsample" (it always extends the log); its weak  *)
(* fairness is written with that condition for ENABLED.                    *)
(***************************************************************************)
FairDownsample(h) ==
    []<>(call[h].pc # "downsample") \/ []<><<Downsample(h)>>_vars

SpecEarlyFair ==
    /\ SpecEarly
    /\ \A h \in Writers :
          /\ WF_vars(PrimaryWrite(h))
          /\ WF_vars(CascadeWrite(h))
          /\ FairDownsample(h)

(***************************************************************************)
(* A whole write call as one function of the file.                         *)
(***************************************************************************)
\* the file write_archives leaves once the cascade has run from pair
\* `step` of the chain on
RECURSIVE cascaded(_, _, _, _, _)
cascaded(hdr, f, chain, step, timestamp) ==
    IF step >= Len(chain) THEN f
    ELSE LET outcome == downsample_new(hdr, f,
                            hdr.archive_infos[chain[step]],
                            hdr.archive_infos[chain[step + 1]], timestamp)
         IN  IF outcome.status = "Some"
             THEN cascaded(hdr, perform_write_op(hdr, f, outcome.write_op),
                           chain, step + 1, timestamp)
             ELSE IF outcome.status = "None" /\ step = 1
             THEN cascaded(hdr, f, chain, 2, timestamp)
             ELSE f

\* the file a whole write call leaves when nothing else touches the file
written(hdr, f, current_time, point) ==
    LET found == split(hdr, current_time, point.timestamp)
    IN  IF ~found.some \/ point.timestamp > current_time THEN f
        ELSE cascaded(hdr,
                 perform_write_op(hdr, f,
                     build_write_op(hdr.archive_infos[found.high], point,
                         read_point(hdr, f,
                             hdr.archive_infos[found.high].offset)
                                 .timestamp)),
                 <<found.high>> \o found.rest, 1, point.timestamp)

(***************************************************************************)
(* Two processes, each with its own handle on the same file, make one      *)
(* write call each.  Every seek-and-read and every seek-and-write of a     *)
(* call is a step of its own, so the steps of the two calls interleave;    *)
(* nothing in the code locks the file.                                     *)
(***************************************************************************)
\* OtherInProgress when calls on different handles exclude one another
NoneInProgress(h) == FALSE

\* a call is in progress on a handle other than h
OtherInProgress(h) ==
    \E g \in Handles \ {h} :
        call[g].pc \in {"write_archives", "downsample", "perform_write_op"}

\* the time of the write call that was made on the file before the two
\* processes start, and its point
SeedTime == MaxTime - ClockSpan

SeedPoint == Point(SeedTime, <<1, 1>>)

InitTwo ==
    /\ \E schema \in Schemas, xff \in XFilesFactors :
          /\ header = open(schema, xff)
          /\ file \in {zero_filled(schema),
                       written(open(schema, xff), zero_filled(schema),
                               SeedTime, SeedPoint)}
    /\ call = [h \in Handles |-> IdleCall]
    /\ sent = 0

WriteConcurrently(h, current_time, point) ==
    /\ call[h].pc = "idle"
    /\ sent' = sent + 1
    /\ UNCHANGED <<header, file>>
    /\ write_from(h,
           [NewFrame(file, current_time, point, FALSE, <<>>)
               EXCEPT !.overlaps = OtherInProgress(h)],
           split(header, current_time, point.timestamp))

NextTwo ==
    \E h \in Handles :
        \/ \E current_time \in CurrentTimes, timestamp \in CurrentTimes,
              value \in Values :
              WriteConcurrently(h, current_time, Point(timestamp, value))
        \/ PrimaryWrite(h)
        \/ Downsample(h)
        \/ CascadeWrite(h)

SpecTwo == InitTwo /\ [][NextTwo]_vars

(***************************************************************************)
(* Timestamps at their full width.  current_time and point.timestamp are   *)
(* u64; a u64 is written here as its four 16-bit limbs, most significant   *)
(* first, so that values at and above 2^32 can be told from their low 32   *)
(* bits.  One write call is made on a fresh file of one archive, so that   *)
(* write_archives is the primary write alone and the base timestamp is 0.  *)
(***************************************************************************)
Limb == 2 ^ 16

\* the u64 of a number below 2^31
u64(n) == <<0, 0, n \div Limb, n % Limb>>

\* 2^32 + n
u64_above_u32(n) == <<0, 1, n \div Limb, n % Limb>>

\* 2^32 - 1, the largest u32
u32_max == <<0, 0, Limb - 1, Limb - 1>>

\* the borrow out of limb i of a - b
RECURSIVE borrow(_, _, _)
borrow(a, b, i) ==
    IF i > 4 THEN 0
    ELSE IF a[i] - b[i] - borrow(a, b, i + 1) < 0 THEN 1 ELSE 0

u64_less(a, b) == borrow(a, b, 1) = 1

\* a - b on u64, wrapping
u64_sub(a, b) ==
    [i \in 1..4 |-> (a[i] - b[i] - borrow(a, b, i + 1)) % Limb]

\* a % m for a divisor below 2^15
RECURSIVE u64_rem_from(_, _, _)
u64_rem_from(a, m, i) ==
    IF i = 0 THEN 0
    ELSE (u64_rem_from(a, m, i - 1) * Limb + a[i]) % m

u64_rem(a, m) == u64_rem_from(a, m, 4)

\* current_time - point_timestamp as split compares it with a retention:
\* the difference when it is below 2^31, and -1, which age_covered takes
\* for a value beyond every retention, when it is larger or has wrapped
age_u64(current_time, point_timestamp) ==
    IF u64_less(u64_sub(current_time, point_timestamp), u64(Limb))
    THEN u64_sub(current_time, point_timestamp)[4]
    ELSE -1

split_u64(hdr, current_time, point_timestamp) ==
    rest_of_archives(hdr,
        find_archive(hdr.archive_infos,
                     age_u64(current_time, point_timestamp), 1))

interval_ceiling_u64(ai, timestamp) ==
    u64_sub(timestamp, u64(u64_rem(timestamp, ai.seconds_per_point)))

\* write_u32 of interval_ceiling as u32: the low two limbs, the high two
\* are dropped by the cast
fill_buf_u64(ceiling, point_value) ==
    [ts    |-> <<ceiling[3] \div 256, ceiling[3] % 256,
                 ceiling[4] \div 256, ceiling[4] % 256>>,
     value |-> point_value]

\* read_u32 as u64
buf_to_point_u64(buf) ==
    [timestamp |-> <<0, 0, buf.ts[1] * 256 + buf.ts[2],
                     buf.ts[3] * 256 + buf.ts[4]>>,
     value     |-> buf.value]

\* build_write_op on an archive whose base timestamp is 0
build_write_op_u64(archive_info, point) ==
    [seek  |-> archive_info.offset,
     bytes |-> fill_buf_u64(
                   interval_ceiling_u64(archive_info, point.timestamp),
                   point.value)]

\* 1s:4s - one archive
Schema6 == <<RetentionPolicy(1, 4)>>

WideSchemas == {Schema1, Schema6}

\* times of today's size, the largest u32 and times past it
WideTimes ==
    {u64(t) : t \in CurrentTimes} \cup {u32_max}
        \cup {u64_above_u32(t) : t \in CurrentTimes}

InitWide ==
    /\ \E schema \in WideSchemas, xff \in XFilesFactors :
          /\ header = open(schema, xff)
          /\ file = zero_filled(schema)
    /\ call = [h \in Handles |-> IdleCall]
    /\ sent = 0

\* WhisperFile::write up to the call of write_archives
WriteWide(h, current_time, point) ==
    /\ call[h].pc = "idle"
    /\ sent = 0
    /\ sent' = 1
    /\ UNCHANGED <<header, file>>
    /\ \/ \* overflow checks on: the subtraction in split aborts
          /\ u64_less(current_time, point.timestamp)
          /\ call' = [call EXCEPT ![h] =
                Panicked(NewFrame(file, current_time, point, FALSE, <<>>),
                         "attempt to subtract with overflow")]
       \/ /\ ~split_u64(header, current_time, point.timestamp).some
          /\ call' = [call EXCEPT ![h] =
                Panicked(NewFrame(file, current_time, point, FALSE, <<>>),
                         "no archives satisfy current time")]
       \/ /\ split_u64(header, current_time, point.timestamp).some
          /\ call' = [call EXCEPT ![h] =
                Selected(header, file,
                    NewFrame(file, current_time, point, FALSE, <<>>),
                    split_u64(header, current_time, point.timestamp))]

\* write_archives with no coarser archive: the write into the selected one
PrimaryWriteWide(h) ==
    /\ call[h].pc = "write_archives"
    /\ call[h].base_timestamp = 0
    /\ primary_write(h, call[h],
           build_write_op_u64(header.archive_infos[call[h].high],
                              call[h].point))
    /\ UNCHANGED <<header, sent>>

NextWide ==
    \E h \in Writers :
        \/ \E current_time \in WideTimes, timestamp \in WideTimes,
              value \in Values :
              WriteWide(h, current_time, Point(timestamp, value))
        \/ PrimaryWriteWide(h)
        \/ Return(h)

SpecWide == InitWide /\ [][NextWide]_vars

(***************************************************************************)
(* Properties.                                                             *)
(***************************************************************************)
Archives == header.archive_infos

\* the call has got past split
Started(c) == c.pc # "idle"

Age(c) == c.current_time - c.point.timestamp

\* the record stored in slot `index` (from 0) of archive a of file f
SlotOf(f, a, index) ==
    buf_to_point(f[slot_at(header, Archives[a].offset) + index])

\* the positions of the log at which the call wrote, in order
WritesOf(c) == SelectSeq(c.log, LAMBDA e : e.op = "write")

\* C1: within one write call the cascade stops at the first skipped
\* downsample: once a step A_i -> A_(i+1) is skipped (the first step
\* included), no further downsample is attempted and no further slot is
\* written in that call.
C1_CascadeStopsAtFirstSkip ==
    \A h \in Handles :
        \A i \in 1..Len(call[h].log) :
            (call[h].log[i].op = "downsample"
             /\ call[h].log[i].status = "None")
                => i = Len(call[h].log)

\* C2: for a point that is not in the future, write selects the first
\* archive in declaration order whose retention is strictly greater than
\* current_time - point.timestamp (an archive whose retention equals the
\* age is passed over), and the archives after it, in order, are the
\* coarser archives of the cascade.
C2_SplitSelectsFirstCovering ==
    \A h \in Handles :
        (Started(call[h]) /\ Age(call[h]) >= 0) =>
            LET c == call[h]
                covering == {i \in DOMAIN Archives :
                                Archives[i].retention > Age(c)}
            IN  /\ (c.high = 0) <=> (covering = {})
                /\ c.high # 0 =>
                      /\ c.high \in covering
                      /\ \A j \in covering : c.high <= j
                      /\ Len(c.rest) = Len(Archives) - c.high
                      /\ \A k \in 1..Len(c.rest) : c.rest[k] = c.high + k

\* a call that selected the second archive because the age equals the
\* retention of the first
C2_Witness ==
    \E h \in Handles :
        /\ call[h].pc = "done"
        /\ Age(call[h]) >= 0
        /\ call[h].high = 2
        /\ Archives[1].retention = Age(call[h])
        /\ call[h].rest # <<>>

\* C3: when no archive has retention > current_time - point.timestamp,
\* write hands PointOutsideRetention back to its caller as an error value
\* (the call does not abort) and the file is byte for byte what it was.
C3_OutsideRetentionIsReported ==
    \A h \in Handles :
        (/\ Started(call[h])
         /\ Age(call[h]) >= 0
         /\ \A i \in DOMAIN Archives : Archives[i].retention <= Age(call[h]))
            => (call[h].pc # "panic" /\ file = call[h].pre)

\* C4: a write whose point.timestamp is greater than current_time is
\* rejected as PointInFuture: the call does not abort, no archive is
\* selected and no byte of the file is written.
C4_FutureIsRejected ==
    \A h \in Handles :
        (Started(call[h])
         /\ call[h].point.timestamp > call[h].current_time)
            => (/\ call[h].pc # "panic"
                /\ call[h].high = 0
                /\ file = call[h].pre)

\* C5: after a successful write the slot of the selected archive at
\* seek(point, base), base being the timestamp slot 0 of that archive held
\* before the call, holds (point.timestamp aligned down to
\* seconds_per_point, point.value); with base 0 it is slot 0.
C5_PrimarySlotHoldsPoint ==
    \A h \in Handles :
        call[h].pc = "done" =>
            LET c    == call[h]
                a    == Archives[c.high]
                base == buf_to_point(
                            c.pre[slot_at(header, a.offset)]).timestamp
                seek == calculate_seek(a, c.point, base)
            IN  /\ buf_to_point(file[slot_at(header, seek)])
                     = Point(c.point.timestamp
                                 - (c.point.timestamp % a.seconds_per_point),
                             c.point.value)
                /\ base = 0 => seek = a.offset

\* a successful write of a point off the grid into an archive that was not
\* empty, at a slot other than slot 0
C5_Witness ==
    \E h \in Handles :
        /\ call[h].pc = "done"
        /\ call[h].base_timestamp # 0
        /\ call[h].point.timestamp
              % Archives[call[h].high].seconds_per_point # 0
        /\ call[h].log[1].seek # Archives[call[h].high].offset
        /\ ~call[h].again

\* The window of a downsample from archive a into archive a + 1 around
\* anchor, as the file format defines it: it starts at the anchor aligned
\* down to the coarse seconds_per_point and is `needed` consecutive slots of
\* the fine ring, from the slot of the window start on.
WindowStart(a, anchor) ==
    anchor - (anchor % Archives[a + 1].seconds_per_point)

Needed(a) ==
    Archives[a + 1].seconds_per_point \div Archives[a].seconds_per_point

WindowSlot(f, a, anchor, i) ==
    LET base  == SlotOf(f, a, 0).timestamp
        start == IF base = 0 THEN 0
                 ELSE ((WindowStart(a, anchor) - base)
                          \div Archives[a].seconds_per_point)
                      % Archives[a].points
    IN  (start + i) % Archives[a].points

\* the fine slots of the window that hold the timestamp expected of them
WindowKept(f, a, anchor) ==
    {i \in 0..(Needed(a) - 1) :
        SlotOf(f, a, WindowSlot(f, a, anchor, i)).timestamp
            = WindowStart(a, anchor) + i * Archives[a].seconds_per_point}

\* handle h takes a downsample step that does not abort
DownsampleTaken(h) ==
    /\ call[h].pc = "downsample"
    /\ call'[h] # call[h]
    /\ call'[h].pc # "panic"

\* C6: a downsample step writes a coarse point if and only if
\* kept / needed >= x_files_factor, kept being the number of fine slots of
\* the window whose stored timestamp is the expected one; a step below the
\* factor leaves the file as it is.
C6_WritesIffCoverage ==
    [][\A h \in Handles :
          DownsampleTaken(h) =>
              LET a    == Chain(call[h])[call[h].step]
                  kept == Cardinality(
                              WindowKept(file, a, call[h].point.timestamp))
                  xff  == header.metadata.x_files_factor
              IN  /\ (call'[h].pc = "perform_write_op")
                        <=> (kept * xff[2] >= xff[1] * Needed(a))
                  /\ call'[h].pc # "perform_write_op" => file' = file]_vars

\* C7: with Average, a downsample step that is applied writes
\* (window_start, mean of the kept fine values); with schema 1m:1h,1h:1d
\* and the 60 samples 0..59 written one per minute across one hour, the
\* coarse slot of that hour holds (window_start, 29.5).
C7_HourMean ==
    (/\ header = new_from_file(Schema1m)
     /\ sent = SamplesPerHour
     /\ \A h \in Handles : call[h].pc = "idle")
        => \E k \in 0..(Archives[2].points - 1) :
              SlotOf(file, 2, k) = Point(HourStart, <<59, 2>>)

\* C8: the write path never aborts: every call either completes or hands
\* an error value back.
C8_WriteNeverPanics == \A h \in Handles : call[h].pc # "panic"

\* C9: within one call the primary write comes first, the cascaded writes
\* follow in strictly coarsening order, and a downsample that reads archive
\* A_i is computed only after the call's write into A_i.
C9_WritesInCoarseningOrder ==
    \A h \in Handles :
        LET log == call[h].log
        IN  /\ log # <<>> =>
                  (log[1].op = "write" /\ log[1].archive = call[h].high)
            /\ \A i, j \in 1..Len(log) :
                  (i < j /\ log[i].op = "write" /\ log[j].op = "write")
                      => log[i].archive < log[j].archive
            /\ \A j \in 1..Len(log) :
                  log[j].op = "downsample" =>
                      \E i \in 1..(j - 1) :
                          /\ log[i].op = "write"
                          /\ log[i].archive = log[j].archive

\* C10: write is idempotent: a call that repeats the call before it leaves
\* every slot of the file as that call left it.
C10_WriteIsIdempotent ==
    \A h \in Handles :
        (call[h].pc \in {"done", "panic"} /\ call[h].again)
            => file = call[h].pre

\* a repeated call is over whose first run was the first write into an
\* empty archive, moved its base timestamp off 0 and cascaded
C10_Witness ==
    \E h \in Handles :
        /\ call[h].pc = "done"
        /\ call[h].again
        /\ SlotOf(call[h].before, call[h].high, 0).timestamp = 0
        /\ SlotOf(call[h].pre, call[h].high, 0).timestamp # 0
        /\ Len(WritesOf(call[h])) >= 2

\* the call has performed its primary write and nothing after it
PrimaryWritten(c) ==
    /\ c.pc \in {"downsample", "done"}
    /\ Len(c.log) = 1

\* the number of slots from the base slot to the slot of the call's point
SlotDistance(c) ==
    ((c.point.timestamp
         - (c.point.timestamp % Archives[c.high].seconds_per_point))
        - c.base_timestamp) \div Archives[c.high].seconds_per_point

\* C11: ring closure: in an archive whose base timestamp is not 0, a write
\* of timestamp base + k * seconds_per_point (k of either sign) lands at
\* byte offset archive.offset + 12 * (k mod points), the modulo Euclidean;
\* a write at base + points * seconds_per_point overwrites slot 0, which
\* then reads as the new aligned timestamp and value.
C11_RingClosure ==
    \A h \in Handles :
        (PrimaryWritten(call[h]) /\ call[h].base_timestamp # 0) =>
            LET c == call[h]
                a == Archives[c.high]
                k == SlotDistance(c)
                aligned == c.base_timestamp + k * a.seconds_per_point
            IN  /\ c.log[1].seek = a.offset + 12 * (k % a.points)
                /\ SlotOf(file, c.high, k % a.points)
                      = Point(aligned, c.point.value)
                /\ k = a.points =>
                      /\ c.log[1].seek = a.offset
                      /\ read_point(header, file, a.offset)
                            = Point(aligned, c.point.value)

\* a write one whole trip of the ring after the base timestamp has been
\* performed
C11_Witness ==
    \E h \in Handles :
        /\ PrimaryWritten(call[h])
        /\ call[h].base_timestamp # 0
        /\ SlotDistance(call[h]) = Archives[call[h].high].points
        /\ SlotOf(call[h].pre, call[h].high, 0).timestamp
              = call[h].base_timestamp
        /\ SlotOf(file, call[h].high, 0).timestamp
              > call[h].base_timestamp

\* the first call on a file whose slots were all zero is over; its point
\* has age 0
FirstWriteOver(c) ==
    /\ c.pc \in {"done", "panic"}
    /\ ~c.again
    /\ sent = 1
    /\ Age(c) = 0

\* C12: coverage correctness: on a fresh file with x_files_factor 0, after
\* exactly one write of (t, v) with age 0 the finest archive holds
\* (t aligned to its seconds_per_point, v) at the slot written and every
\* coarser archive holds v in the slot of its window that contains t.
C12_SingleWriteReachesEveryArchive ==
    \A h \in Handles :
        (FirstWriteOver(call[h]) /\ header.metadata.x_files_factor = Zero)
            => LET c == call[h]
                   t == c.point.timestamp
               IN  /\ c.pc = "done"
                   /\ c.high = 1
                   /\ buf_to_point(file[slot_at(header, c.log[1].seek)])
                         = Point(t - (t % Archives[1].seconds_per_point),
                                 c.point.value)
                   /\ \A a \in 2..Len(Archives) :
                         \E k \in 0..(Archives[a].points - 1) :
                            SlotOf(file, a, k)
                               = Point(t - (t % Archives[a].seconds_per_point),
                                       c.point.value)

\* the file size in bytes: the header and the slots of the data region
FileSize(f) ==
    METADATA_SIZE + POINT_SIZE * header.metadata.archive_count
        + POINT_SIZE * Len(f)

\* the write lies inside the region of the archive it targets
InsideArchive(e) ==
    /\ Archives[e.archive].offset <= e.seek
    /\ e.seek + POINT_SIZE
          <= Archives[e.archive].offset + 12 * Archives[e.archive].points

\* C13: after creation no write call modifies the header region
\* [0, 16 + 12 * archive_count) or changes the size of the file: every
\* byte a write call writes lies inside [A.offset, A.offset + 12 * A.points)
\* of the archive A it targets.
C13_WritesStayInsideArchives ==
    /\ FileSize(file)
          = Archives[Len(Archives)].offset
              + 12 * Archives[Len(Archives)].points
    /\ \A h \in Handles :
          \A i \in 1..Len(call[h].log) :
              call[h].log[i].op = "write" =>
                  /\ InsideArchive(call[h].log[i])
                  /\ call[h].log[i].seek >= 16 + 12 * Len(Archives)

\* a call has written the last slot of one archive and cascaded into the
\* next
C13_Witness ==
    \E h \in Handles :
        /\ call[h].pc = "done"
        /\ Len(WritesOf(call[h])) >= 2
        /\ \E i \in 1..Len(call[h].log) :
              /\ call[h].log[i].op = "write"
              /\ call[h].log[i].seek + POINT_SIZE
                    = Archives[call[h].log[i].archive].offset
                        + 12 * Archives[call[h].log[i].archive].points

\* new has just returned: no write call has been made yet
JustCreated == header # NoHeader /\ sent = 0

\* C14: after create with n retention policies the in-memory header is
\* what was written to disk and has the layout of the format:
\* archive_count n, max_retention the retention of the coarsest policy,
\* Average, x_files_factor 0.5, the first offset 16 + 12 * n, every next
\* offset the one before plus 12 * points, and seconds_per_point, points
\* and retention those of policy i.
C14_CreatedHeaderLayout ==
    \A schema \in CreateSchemas :
        header = new_from_file(schema) =>
            LET n == Len(schema)
            IN  /\ header_on_disk(header).metadata = header.metadata
                /\ Len(header_on_disk(header).index) = n
                /\ header.metadata.archive_count = n
                /\ header.metadata.max_retention = schema[n].retention
                /\ header.metadata.aggregation_type = "Average"
                /\ header.metadata.x_files_factor = <<1, 2>>
                /\ Len(Archives) = n
                /\ Archives[1].offset = 16 + 12 * n
                /\ \A i \in 1..(n - 1) :
                      Archives[i + 1].offset
                          = Archives[i].offset + 12 * Archives[i].points
                /\ \A i \in 1..n :
                      /\ Archives[i].seconds_per_point = schema[i].precision
                      /\ Archives[i].retention = schema[i].retention
                      /\ Archives[i].points
                            = schema[i].retention \div schema[i].precision
                      /\ header_on_disk(header).index[i].offset
                            = Archives[i].offset
                      /\ header_on_disk(header).index[i].seconds_per_point
                            = schema[i].precision
                      /\ header_on_disk(header).index[i].points
                            = Archives[i].points

\* a file of three archives has just been created
C14_Witness ==
    /\ JustCreated
    /\ header = new_from_file(Schema3)
    /\ Len(Archives) = 3

\* C15: right after create the file is size_on_disk bytes long and every
\* slot of every archive is zero, whatever the path held before.
C15_CreatedFileIsEmpty ==
    JustCreated =>
        /\ FileSize(file)
              = Archives[Len(Archives)].offset
                  + 12 * Archives[Len(Archives)].points
        /\ \A i \in 1..Len(file) : file[i] = ZeroSlot

\* C16: codec round trip: buf_to_point of the bytes fill_buf(t, v) wrote
\* is the point (t, v); the encoding is the 4 bytes of the timestamp, most
\* significant first, followed by the value.
C16_CodecRoundTrip ==
    \A h \in Handles :
        call[h].pc = "buf_to_point" =>
            LET buf == call[h].write_op.bytes
                t   == call[h].point.timestamp
            IN  /\ call[h].log[1] = call[h].point
                /\ Len(buf.ts) = 4
                /\ \A i \in 1..4 : buf.ts[i] \in 0..255
                /\ t = buf.ts[1] * 16777216 + buf.ts[2] * 65536
                          + buf.ts[3] * 256 + buf.ts[4]
                /\ buf.value = call[h].point.value

\* a point whose timestamp fills all four bytes has been encoded and
\* decoded
C16_Witness ==
    \E h \in Handles :
        /\ call[h].pc = "buf_to_point"
        /\ call[h].point.timestamp = 16777217
        /\ call[h].point.value = <<-1, 2>>
        /\ call[h].write_op.bytes.ts = <<1, 0, 0, 1>>

\* the sum of the values held by the window slots S
RECURSIVE WindowSum(_, _, _, _)
WindowSum(f, a, anchor, S) ==
    IF S = {} THEN Zero
    ELSE LET i == CHOOSE j \in S : \A k \in S : j <= k
         IN  RatAdd(SlotOf(f, a, WindowSlot(f, a, anchor, i)).value,
                    WindowSum(f, a, anchor, S \ {i}))

\* what the downsample step handle h has just taken recorded
StepTaken(h) == call'[h].log[Len(call'[h].log)]

\* C17: in a downsample step the i-th fine slot of the window, in window
\* order, is kept if and only if its stored timestamp is
\* window_start + i * fine.seconds_per_point: the step counts exactly
\* those slots, none of them empty, and aggregates exactly their values.
C17_KeptAreTheExpectedSlots ==
    [][\A h \in Handles :
          DownsampleTaken(h) =>
              LET a      == Chain(call[h])[call[h].step]
                  anchor == call[h].point.timestamp
                  kept   == WindowKept(file, a, anchor)
              IN  /\ StepTaken(h).kept = Cardinality(kept)
                  /\ \A i \in kept :
                        SlotOf(file, a,
                               WindowSlot(file, a, anchor, i)).timestamp # 0
                  /\ call'[h].pc = "perform_write_op" =>
                        call'[h].write_op.bytes.value
                            = RatDivInt(WindowSum(file, a, anchor, kept),
                                        Cardinality(kept))]_vars

\* the reads the downsample step that handle h is about to take plans
PlannedReads(h) ==
    downsample_new_read_ops(header, file,
        Archives[Chain(call[h])[call[h].step]],
        Archives[Chain(call[h])[call[h].step + 1]],
        Needed(Chain(call[h])[call[h].step]),
        call[h].point.timestamp)

\* C18: a window of needed slots from slot start on that crosses the end
\* of the fine ring is read as the slots [start, points) followed by the
\* slots [0, needed - (points - start)), in that order; a window that does
\* not cross it is read as the single range [start, start + needed).
C18_WindowIsReadInRingOrder ==
    \A h \in Handles :
        (/\ call[h].pc = "downsample"
         /\ Needed(Chain(call[h])[call[h].step])
               <= Archives[Chain(call[h])[call[h].step]].points) =>
            LET points == Archives[Chain(call[h])[call[h].step]].points
                needed == Needed(Chain(call[h])[call[h].step])
                reads  == PlannedReads(h)
                start  == reads.first.index
            IN  /\ reads.ok
                /\ IF start + needed > points
                   THEN /\ reads.first.count = points - start
                        /\ reads.second.some
                        /\ reads.second.index = 0
                        /\ reads.second.count = needed - (points - start)
                   ELSE /\ reads.first.count = needed
                        /\ reads.second.some => reads.second.count = 0

\* the points the downsample step handle h is about to take reads, in the
\* order it reads them
PointsRead(h) ==
    LET fine  == Archives[Chain(call[h])[call[h].step]]
        reads == PlannedReads(h)
        first == read_points(header, file, fine, reads.first.index,
                             reads.first.count)
        second == IF reads.second.some
                  THEN read_points(header, file, fine, reads.second.index,
                                   reads.second.count)
                  ELSE [ok |-> TRUE, points |-> <<>>]
    IN  [ok |-> reads.ok /\ first.ok /\ second.ok,
         points |-> first.points \o second.points]

\* the points that step keeps
KeptByStep(h) ==
    filter_values(PointsRead(h).points,
        WindowStart(Chain(call[h])[call[h].step], call[h].point.timestamp),
        Archives[Chain(call[h])[call[h].step]].seconds_per_point)

\* C19: a slot whose stored timestamp is 0 is absence of data: in no
\* downsample step, whatever the anchor (anchors below the coarse
\* seconds_per_point, whose window starts at 0, included), is a fine slot
\* with timestamp 0 counted as kept or aggregated.
C19_EmptySlotIsNeverKept ==
    \A h \in Handles :
        (call[h].pc = "downsample" /\ PointsRead(h).ok) =>
            \A i \in 1..Len(KeptByStep(h)) :
                KeptByStep(h)[i].timestamp # 0

\* C20: the fine start slot of a downsample window is 0 when the base
\* timestamp of the fine archive is 0, and otherwise
\* (window_start - fine_base) / fine.seconds_per_point reduced with the
\* Euclidean modulo fine.points; it always lies in [0, fine.points), also
\* when window_start < fine_base.
C20_StartSlotIsEuclidean ==
    \A h \in Handles :
        call[h].pc = "downsample" =>
            LET a     == Chain(call[h])[call[h].step]
                base  == SlotOf(file, a, 0).timestamp
                start == PlannedReads(h).first.index
            IN  /\ start \in 0..(Archives[a].points - 1)
                /\ base = 0 => start = 0
                /\ base # 0 =>
                      start = ((WindowStart(a, call[h].point.timestamp)
                                   - base)
                                  \div Archives[a].seconds_per_point)
                              % Archives[a].points

\* a downsample is about to run whose window starts before the base
\* timestamp of the fine archive, at a slot other than 0
C20_Witness ==
    \E h \in Handles :
        /\ call[h].pc = "downsample"
        /\ SlotOf(file, Chain(call[h])[call[h].step], 0).timestamp
              > WindowStart(Chain(call[h])[call[h].step],
                            call[h].point.timestamp)
        /\ PlannedReads(h).first.index > 0

\* slot 0 of the fine archive of the step handle h is at holds timestamp 0
FineArchiveEmpty(h) ==
    SlotOf(file, Chain(call[h])[call[h].step], 0).timestamp = 0

\* C21: when a downsample step finds the fine archive empty (timestamp 0
\* in its slot 0), its coverage is zero, the step writes no coarse point
\* and the cascade stops there, for every x_files_factor in [0, 1].
C21_EmptyFineArchiveStopsCascade ==
    [][\A h \in Handles :
          (DownsampleTaken(h) /\ FineArchiveEmpty(h)) =>
              /\ StepTaken(h).kept = 0
              /\ StepTaken(h).status = "None"
              /\ call'[h].pc = "done"
              /\ file' = file]_vars

\* the downsample attempts of the call, in order
DownsamplesOf(c) == SelectSeq(c.log, LAMBDA e : e.op = "downsample")

\* the call is at one of the two ends of the state machine
AtNoArchive(c) ==
    c.pc = "panic" /\ c.panic = "no archives satisfy current time"

AtDone(c) == c.pc = "done"

\* the steps the call has taken are steps of the state machine
\* Selected -> PrimaryWrote -> Cascade(0) -> (ok -> write -> Cascade(i + 1))
\* | (skip -> Done)
FollowsStateMachine(c) ==
    /\ c.pc = "panic" => AtNoArchive(c)
    /\ (c.high # 0 /\ c.pc # "write_archives") =>
          /\ c.log # <<>>
          /\ c.log[1].op = "write"
          /\ c.log[1].archive = c.high
          /\ \A i \in 2..Len(c.log) :
                c.log[i].op = "write" => c.log[i].archive # c.high
    /\ Len(DownsamplesOf(c)) <= Len(c.rest)
    /\ \A i \in 1..Len(DownsamplesOf(c)) :
          DownsamplesOf(c)[i].archive = c.high + i - 1
    /\ \A i \in 1..Len(c.log) :
          c.log[i].op = "downsample" =>
              IF c.log[i].status = "Some"
              THEN IF i = Len(c.log) THEN c.pc = "perform_write_op"
                   ELSE /\ c.log[i + 1].op = "write"
                        /\ c.log[i + 1].archive = c.log[i].archive + 1
              ELSE i = Len(c.log) /\ AtDone(c)

\* C22: every write call follows the per-write state machine and
\* terminates: from Start it reaches NoArchive or Done, with exactly one
\* primary write and then at most k downsample attempts, one per adjacent
\* pair A_i -> A_(i+1) in order and each pair at most once, k being the
\* number of archives after A_0; a skipped downsample ends the call.
C22_WriteFollowsStateMachine ==
    /\ [](\A h \in Handles : FollowsStateMachine(call[h]))
    /\ \A h \in Handles :
          (call[h].pc \in {"write_archives", "downsample",
                           "perform_write_op"})
              ~> (AtDone(call[h]) \/ AtNoArchive(call[h]))

\* both processes have made their call and both calls have completed
BothDone == \A h \in Handles : call[h].pc = "done"

\* the file the call of handle a followed by the call of handle b leaves
\* when they run one after the other on file f
Serial(f, a, b) ==
    written(header,
        written(header, f, call[a].current_time, call[a].point),
        call[b].current_time, call[b].point)

\* the slots of the archives after the first
CoarseSlots == {i \in 1..Len(file) : i > Archives[1].points}

\* the call of handle a ran to its end before the call of handle b began
RanBefore(a, b) ==
    /\ ~call[a].overlaps
    /\ ~call[b].overlaps
    /\ call[b].pre
          = written(header, call[a].pre, call[a].current_time, call[a].point)

\* C23: two writers on the same file through separate handles are not
\* serializable.  Calls that do not overlap leave the file of their serial
\* order; calls whose read-window and write-slot steps interleave can leave
\* a coarse slot with a value that no serial order produces, a stale
\* aggregate computed from a fine window the other writer had not yet
\* updated (the state C23_Witness).
C23_OnlySerialRunsAreSerial ==
    (BothDone /\ \A h \in Handles : ~call[h].overlaps) =>
        \E a, b \in Handles :
            /\ a # b
            /\ RanBefore(a, b)
            /\ file = Serial(call[a].pre, a, b)

\* both calls began on the same file and overlapped, and a coarse slot
\* holds a point, not NaN, that neither serial order leaves there: the
\* aggregate one call computed before the other call's write into the
\* fine window and wrote after it (a call repeated now would replace it)
C23_Witness ==
    /\ BothDone
    /\ header = open(Schema2, <<1, 2>>)
    /\ call[1].pre = call[2].pre
    /\ \E h \in Handles : call[h].overlaps
    /\ \E i \in CoarseSlots :
          /\ file[i] # Serial(call[1].pre, 1, 2)[i]
          /\ file[i] # Serial(call[1].pre, 2, 1)[i]
          /\ file[i].value # NaN
          /\ file[i] # call[1].pre[i]
          /\ \E h \in Handles :
                written(header, file, call[h].current_time,
                        call[h].point)[i] # file[i]

\* the slots (indices into the data region) of archive a
SlotsOf(a) ==
    {i \in 1..Len(file) :
        /\ i >= slot_at(header, Archives[a].offset)
        /\ i < slot_at(header, Archives[a].offset) + Archives[a].points}

\* the slots of archive a that differ from what they were when call c began
ChangedIn(c, a) == {i \in SlotsOf(a) : file[i] # c.pre[i]}

\* C24: frame of a write: a successful write call writes exactly one slot
\* of the selected archive A_0 and changes no other slot of it, changes at
\* most one slot of each archive coarser than A_0 and no slot of any
\* archive finer than A_0; the file keeps its length.
C24_WriteFrame ==
    \A h \in Handles :
        call[h].pc = "done" =>
            LET c == call[h]
            IN  /\ Len(file) = Len(c.pre)
                /\ Cardinality({i \in 1..Len(c.log) :
                       c.log[i].op = "write" /\ c.log[i].archive = c.high})
                      = 1
                /\ ChangedIn(c, c.high)
                      \subseteq {slot_at(header, c.log[1].seek)}
                /\ slot_at(header, c.log[1].seek) \in SlotsOf(c.high)
                /\ \A a \in DOMAIN Archives :
                      /\ a > c.high => Cardinality(ChangedIn(c, a)) <= 1
                      /\ a < c.high => ChangedIn(c, a) = {}

\* a call that selected the second of three archives is over: it changed
\* one slot of the second and one of the third archive, and the first
\* archive holds a point it left alone
C24_Witness ==
    \E h \in Handles :
        /\ call[h].pc = "done"
        /\ call[h].high = 2
        /\ Len(Archives) = 3
        /\ Cardinality(ChangedIn(call[h], 2)) = 1
        /\ Cardinality(ChangedIn(call[h], 3)) = 1
        /\ \E i \in SlotsOf(1) : file[i] # ZeroSlot

\* the fine slots a planned read covers
SlotsRead(read) == {read.index + k : k \in 0..(read.count - 1)}

\* C25: every read a downsample step issues stays inside the fine
\* archive, for every adjacent pair of archives (also when needed equals
\* or exceeds fine.points): each range [index, index + length) has
\* index + length <= fine.points, the lengths sum to needed and no fine
\* slot is read twice.
C25_ReadsStayInsideFineArchive ==
    \A h \in Handles :
        call[h].pc = "downsample" =>
            LET points == Archives[Chain(call[h])[call[h].step]].points
                needed == Needed(Chain(call[h])[call[h].step])
                reads  == PlannedReads(h)
            IN  /\ reads.ok
                /\ reads.first.index + reads.first.count <= points
                /\ reads.second.index + reads.second.count <= points
                /\ reads.first.count + reads.second.count = needed
                /\ SlotsRead(reads.first) \cap SlotsRead(reads.second) = {}

\* C26: every coarse point a cascade step writes is computed from at
\* least one kept fine sample: no downsample step with kept = 0 produces a
\* write, so that the Average is never 0.0 / 0, for every x_files_factor
\* in [0, 1], 0 included.
C26_NoWriteFromEmptyWindow ==
    \A h \in Handles :
        /\ \A i \in 1..Len(call[h].log) :
              (call[h].log[i].op = "downsample"
               /\ call[h].log[i].status = "Some")
                  => call[h].log[i].kept >= 1
        /\ call[h].pc = "perform_write_op"
              => call[h].write_op.bytes.value # NaN

\* C27: for every point that write accepts, the timestamp stored in the
\* written slot, decoded, is point.timestamp aligned down to the
\* archive's seconds_per_point: the 64-bit timestamp is not cut to its low
\* 32 bits when it is encoded into the 4-byte field.
C27_StoredTimestampIsNotTruncated ==
    \A h \in Handles :
        call[h].pc = "done" =>
            buf_to_point_u64(
                file[slot_at(header, call[h].log[1].seek)]).timestamp
              = interval_ceiling_u64(Archives[call[h].high],
                                     call[h].point.timestamp)

====
